---------------------------- MODULE Spec2Model ----------------------------
(***************************************************************************)
(* PushChainRoulette (contract source: src/unnamed/part_001, lines 1-502). *)
(*                                                                         *)
(* One action per external entry point of the contract.  A transaction is  *)
(* atomic: a revert leaves every storage variable and the held value as    *)
(* they were.  The ghost variable lastCall holds the entry point, the      *)
(* inputs and the outcome of the transaction just executed, reverted ones  *)
(* included; the Receipt step clears it before the next transaction.       *)
(*                                                                         *)
(* Amounts are counted in units of 0.05 ether (the greatest common divisor *)
(* of SPIN_COST and the prize tiers), so 1 ether = 20.  Time is counted in *)
(* seconds, block heights in blocks.                                       *)
(*                                                                         *)
(* Spec is the contract with its transactions and with value forced onto   *)
(* its address; PayableSpec is the contract without forced value;          *)
(* PrizeSpec applies the prize lookup to every draw.                       *)
(***************************************************************************)
EXTENDS Integers, FiniteSets, Sequences, TLC

\* ------------------------------------------------------------------------
\* Game configuration (part_001 lines 34-45), in units of 0.05 ether.
SPIN_COST == 2
COOLDOWN_PERIOD == 30
MAX_PRIZE == 20
REVEAL_DELAY == 2
PRIZE_0 == 0
PRIZE_1 == 1
PRIZE_2 == 2
PRIZE_3 == 4
PRIZE_4 == 10
PRIZE_5 == 20

\* ------------------------------------------------------------------------
\* Bounds of the model.
MaxBalance == 24
MaxStray == 1
MaxNonce == 2
MaxBlock == 3
StartTime == 100

\* The accounts that send transactions.  Owner is the deployer (line 99);
\* every account, the owner included, may play.
Owner == "owner"
Accounts == {"owner", "alice"}

\* Inputs of the calls.
Secrets == {1, 2}
CommitSecrets == {1}
BetValues == {SPIN_COST - 1, SPIN_COST, SPIN_COST + 1}
DepositValues == {0, MAX_PRIZE}
BareValues == {0, MAX_PRIZE}
StrayValues == {1}
WithdrawAmounts == {MAX_PRIZE}
\* The seconds between two blocks: half the cooldown, so that the cooldown
\* of a spin runs out with the second block after it.
BlockTimes == {15}
\* The random numbers drawn: the largest without a prize and the largest.
Draws == {599, 999}
\* What the recipient of a value transfer does when it receives the value:
\* accept it, reject it (revert), accept it and call back into the contract
\* with a bare transfer of CallbackValue, or accept it and call back into
\* withdrawFunds(CallbackAmount), whatever that nested call answers.
Callbacks == {"accept", "reject", "receive", "withdrawFunds"}
CallbackValue == MAX_PRIZE
CallbackAmount == SPIN_COST

\* The random numbers are hashes taken modulo DrawModulus (lines 442, 458).
DrawModulus == 1000

\* keccak256 is modelled as an injective constructor: two hashes are equal
\* exactly when their preimages are.
keccak256(x) == <<"keccak256", x>>

NoHash == <<>>
NoCommit == [commitHash |-> NoHash, blockNumber |-> 0, betAmount |-> 0, revealed |-> FALSE]

VARIABLES
    houseBalance,      \* line 48
    balance,           \* address(this).balance, the value the contract holds
    nonce,             \* line 49
    commits,           \* line 59
    s_lastSpinTime,    \* line 62
    playerTotalSpins,  \* line 65
    playerTotalWins,   \* line 66
    paused,            \* Pausable
    blockNumber,       \* block.number
    timestamp,         \* block.timestamp
    lastCall           \* ghost: the last transaction and its outcome

storage == <<houseBalance, balance, nonce, commits, s_lastSpinTime,
             playerTotalSpins, playerTotalWins, paused>>
chain == <<blockNumber, timestamp>>
vars == <<houseBalance, balance, nonce, commits, s_lastSpinTime,
          playerTotalSpins, playerTotalWins, paused, blockNumber, timestamp, lastCall>>

\* The record of a transaction: entry point, sender, argument (msg.value, the
\* amount or the secret), error ("ok" when it did not revert), the prize the
\* call resolved, whether a prize transfer was made and succeeded, what the
\* recipient did, and the event the call emitted.
Call(op, sender, arg, err, prize, sent, cb, event) ==
    [op |-> op, sender |-> sender, arg |-> arg, err |-> err, prize |-> prize,
     sent |-> sent, cb |-> cb, event |-> event]

\* No transaction is being reported.
NoCall == Call("none", Owner, 0, "ok", 0, FALSE, "none", "none")

\* A reverted transaction.
Revert(op, sender, arg, err) ==
    /\ lastCall' = Call(op, sender, arg, err, 0, FALSE, "none", "none")
    /\ UNCHANGED storage
    /\ UNCHANGED chain

Init ==
    /\ houseBalance = 0
    /\ balance = 0
    /\ nonce = 0
    /\ commits = [a \in Accounts |-> NoCommit]
    /\ s_lastSpinTime = [a \in Accounts |-> 0]
    /\ playerTotalSpins = [a \in Accounts |-> 0]
    /\ playerTotalWins = [a \in Accounts |-> 0]
    /\ paused = FALSE
    /\ blockNumber = 1
    /\ timestamp = StartTime
    /\ lastCall = NoCall


\* hasPendingCommit (lines 385-388).
hasPendingCommit(player) ==
    commits[player].blockNumber > 0 /\ ~commits[player].revealed

\* getPlayerStats (lines 365-380).
getPlayerStats(player) ==
    LET lastSpin == s_lastSpinTime[player]
        canSpinAt == lastSpin + COOLDOWN_PERIOD
    IN [totalSpins |-> playerTotalSpins[player],
        totalWins |-> playerTotalWins[player],
        lastSpinTime |-> lastSpin,
        canSpinAgainAt |-> IF canSpinAt > timestamp THEN canSpinAt ELSE timestamp]

\* ------------------------------------------------------------------------
\* _calculatePrize with the first cutoff off by one.
_calculatePrize_CutoffOffByOne(randomNumber) ==
    IF randomNumber <= 600 THEN PRIZE_0
    ELSE IF randomNumber < 900 THEN PRIZE_1
    ELSE IF randomNumber < 950 THEN PRIZE_2
    ELSE IF randomNumber < 980 THEN PRIZE_3
    ELSE IF randomNumber < 995 THEN PRIZE_4
    ELSE PRIZE_5

\* Prize tiers (lines 471-489).
_calculatePrize(randomNumber) ==
    IF randomNumber < 600 THEN PRIZE_0
    ELSE IF randomNumber < 900 THEN PRIZE_1
    ELSE IF randomNumber < 950 THEN PRIZE_2
    ELSE IF randomNumber < 980 THEN PRIZE_3
    ELSE IF randomNumber < 995 THEN PRIZE_4
    ELSE PRIZE_5

\* ------------------------------------------------------------------------
\* nonReentrant (lines 117, 136, 196, 273, 413): an entry point carrying the
\* modifier reverts when it is called while another one is running.  Between
\* transactions no entry point is running, so a top-level call always passes.
nonReentrantError_NoGuard(entered) == "ok"

nonReentrantError(entered) ==
    IF entered THEN "ReentrancyGuardReentrantCall" ELSE "ok"

\* withdrawFunds (lines 117-125) called by the recipient of a transfer while
\* the entry point that makes the transfer is running, with the contract in
\* state (hb, bal).  The caller swallows a revert of the nested call.
NestedWithdrawFunds(sender, amount, hb, bal) ==
    IF \/ sender # Owner
       \/ nonReentrantError(TRUE) # "ok"
       \/ ~(amount <= hb)
       \/ amount > bal
    THEN [houseBalance |-> hb, balance |-> bal]
    ELSE [houseBalance |-> hb - amount, balance |-> bal - amount]

\* payable(to).call{value: amount}("") made from inside a nonReentrant entry
\* point (lines 121, 242, 310, 417), with the contract in state (hb, bal, psd).
\* The recipient either reverts, or takes the value, or takes it and, before
\* returning, calls back into the contract: with a bare transfer of
\* CallbackValue, which receive (lines 493-496) takes without a reentrancy
\* guard, or with withdrawFunds(CallbackAmount).
Transfer(to, amount, cb, hb, bal, psd) ==
    IF cb = "reject" \/ amount > bal
    THEN [success |-> FALSE, houseBalance |-> hb, balance |-> bal, paused |-> psd]
    ELSE IF cb = "receive"
    THEN [success |-> TRUE, houseBalance |-> hb + CallbackValue,
          balance |-> (bal - amount) + CallbackValue, paused |-> psd]
    ELSE IF cb = "withdrawFunds"
    THEN LET n == NestedWithdrawFunds(to, CallbackAmount, hb, bal - amount)
         IN [success |-> TRUE, houseBalance |-> n.houseBalance,
             balance |-> n.balance, paused |-> psd]
    ELSE [success |-> TRUE, houseBalance |-> hb, balance |-> bal - amount, paused |-> psd]

\* Payout without the refund of lines 243-247.
Payout_NoRefund(sender, prize, cb, hb, bal, psd, wins) ==
    IF prize > 0
    THEN IF ~(hb >= prize)
         THEN [err |-> "Insufficient house balance", houseBalance |-> hb, balance |-> bal,
               paused |-> psd, wins |-> wins, sent |-> FALSE, cb |-> "none"]
         ELSE LET t == Transfer(sender, prize, cb, hb - prize, bal, psd)
              IN [err |-> "ok", houseBalance |-> t.houseBalance, balance |-> t.balance,
                  paused |-> t.paused, wins |-> wins + prize, sent |-> t.success, cb |-> cb]
    ELSE [err |-> "ok", houseBalance |-> hb, balance |-> bal, paused |-> psd,
          wins |-> wins, sent |-> FALSE, cb |-> "none"]

\* Payout adding the prize to the winnings again where line 246 takes it back.
Payout_FailureCreditsAgain(sender, prize, cb, hb, bal, psd, wins) ==
    IF prize > 0
    THEN IF ~(hb >= prize)
         THEN [err |-> "Insufficient house balance", houseBalance |-> hb, balance |-> bal,
               paused |-> psd, wins |-> wins, sent |-> FALSE, cb |-> "none"]
         ELSE LET t == Transfer(sender, prize, cb, hb - prize, bal, psd)
              IN IF t.success
                 THEN [err |-> "ok", houseBalance |-> t.houseBalance, balance |-> t.balance,
                       paused |-> t.paused, wins |-> wins + prize, sent |-> TRUE, cb |-> cb]
                 ELSE [err |-> "ok", houseBalance |-> t.houseBalance + prize,
                       balance |-> t.balance, paused |-> t.paused,
                       wins |-> (wins + prize) + prize, sent |-> FALSE, cb |-> cb]
    ELSE [err |-> "ok", houseBalance |-> hb, balance |-> bal, paused |-> psd,
          wins |-> wins, sent |-> FALSE, cb |-> "none"]

\* The payout block shared by revealSpin (lines 236-248) and quickSpin
\* (lines 304-315), run with house balance hb, held value bal and the
\* player's cumulative winnings wins.
Payout(sender, prize, cb, hb, bal, psd, wins) ==
    IF prize > 0
    THEN IF ~(hb >= prize)
         THEN [err |-> "Insufficient house balance", houseBalance |-> hb, balance |-> bal,
               paused |-> psd, wins |-> wins, sent |-> FALSE, cb |-> "none"]
         ELSE LET t == Transfer(sender, prize, cb, hb - prize, bal, psd)
              IN IF t.success
                 THEN [err |-> "ok", houseBalance |-> t.houseBalance, balance |-> t.balance,
                       paused |-> t.paused, wins |-> wins + prize, sent |-> TRUE, cb |-> cb]
                 ELSE [err |-> "ok", houseBalance |-> t.houseBalance + prize,
                       balance |-> t.balance, paused |-> t.paused,
                       wins |-> (wins + prize) - prize, sent |-> FALSE, cb |-> cb]
    ELSE [err |-> "ok", houseBalance |-> hb, balance |-> bal, paused |-> psd,
          wins |-> wins, sent |-> FALSE, cb |-> "none"]

\* ------------------------------------------------------------------------
\* depositFunds without onlyOwner.
depositFundsError_AnyCaller(sender, value) ==
    IF ~(value > 0) THEN "Must send some PC" ELSE "ok"

\* depositFunds (lines 107-111).
depositFundsError(sender, value) ==
    IF sender # Owner THEN "OwnableUnauthorizedAccount"
    ELSE IF ~(value > 0) THEN "Must send some PC"
    ELSE "ok"

depositFunds(sender, value) ==
    LET err == depositFundsError(sender, value)
    IN IF err # "ok"
       THEN Revert("depositFunds", sender, value, err)
       ELSE /\ balance + value <= MaxBalance
            /\ houseBalance' = houseBalance + value
            /\ balance' = balance + value
            /\ lastCall' = Call("depositFunds", sender, value, "ok", 0, FALSE, "none",
                                "FundsDeposited")
            /\ UNCHANGED <<nonce, commits, s_lastSpinTime, playerTotalSpins,
                           playerTotalWins, paused>>
            /\ UNCHANGED chain

\* A bare transfer that is held but not added to houseBalance.
BareTransfer_NotBooked(op, sender, value) ==
    /\ balance + value <= MaxBalance
    /\ balance' = balance + value
    /\ lastCall' = Call(op, sender, value, "ok", 0, FALSE, "none", "FundsDeposited")
    /\ UNCHANGED <<houseBalance, nonce, commits, s_lastSpinTime, playerTotalSpins,
                   playerTotalWins, paused>>
    /\ UNCHANGED chain

\* receive (lines 493-496) and fallback (lines 498-501): a bare transfer.
BareTransfer(op, sender, value) ==
    /\ balance + value <= MaxBalance
    /\ houseBalance' = houseBalance + value
    /\ balance' = balance + value
    /\ lastCall' = Call(op, sender, value, "ok", 0, FALSE, "none", "FundsDeposited")
    /\ UNCHANGED <<nonce, commits, s_lastSpinTime, playerTotalSpins, playerTotalWins, paused>>
    /\ UNCHANGED chain

receive(sender, value) == BareTransfer("receive", sender, value)

fallback(sender, value) == BareTransfer("fallback", sender, value)

\* withdrawFunds without onlyOwner.
withdrawFundsError_AnyCaller(sender, amount) ==
    IF ~(amount <= houseBalance) THEN "Insufficient balance" ELSE "ok"

\* withdrawFunds (lines 117-125).
withdrawFundsError(sender, amount) ==
    IF sender # Owner THEN "OwnableUnauthorizedAccount"
    ELSE IF ~(amount <= houseBalance) THEN "Insufficient balance"
    ELSE "ok"

\* houseBalance -= amount (line 119).
withdrawFundsDebit_Skipped(amount) == houseBalance

withdrawFundsDebit(amount) == houseBalance - amount

withdrawFunds(sender, amount, cb) ==
    LET err == withdrawFundsError(sender, amount)
        t == Transfer(Owner, amount, cb, withdrawFundsDebit(amount), balance, paused)
    IN IF err # "ok"
       THEN Revert("withdrawFunds", sender, amount, err)
       ELSE IF ~t.success
       THEN Revert("withdrawFunds", sender, amount, "TransferFailed")
       ELSE /\ t.balance <= MaxBalance
            /\ houseBalance' = t.houseBalance
            /\ balance' = t.balance
            /\ paused' = t.paused
            /\ lastCall' = Call("withdrawFunds", sender, amount, "ok", 0, TRUE, cb,
                                "FundsWithdrawn")
            /\ UNCHANGED <<nonce, commits, s_lastSpinTime, playerTotalSpins, playerTotalWins>>
            /\ UNCHANGED chain


\* ------------------------------------------------------------------------
\* commitSpin (lines 132-186): the modifiers and the admission checks, in
\* the order the code evaluates them.

\* commitSpin with the cooldown checked before the solvency.
commitSpinError_CooldownBeforeSolvency(sender, value) ==
    IF paused THEN "EnforcedPause"
    ELSE IF value # SPIN_COST THEN "IncorrectBetAmount"
    ELSE IF timestamp < s_lastSpinTime[sender] + COOLDOWN_PERIOD THEN "CooldownNotExpired"
    ELSE IF houseBalance < MAX_PRIZE THEN "InsufficientHouseBalance"
    ELSE IF ~(commits[sender].revealed \/ commits[sender].blockNumber = 0)
    THEN "Previous spin not revealed"
    ELSE "ok"

commitSpinError_NoPendingCheck(sender, value) ==
    IF paused THEN "EnforcedPause"
    ELSE IF value # SPIN_COST THEN "IncorrectBetAmount"
    ELSE IF houseBalance < MAX_PRIZE THEN "InsufficientHouseBalance"
    ELSE IF timestamp < s_lastSpinTime[sender] + COOLDOWN_PERIOD THEN "CooldownNotExpired"
    ELSE "ok"

commitSpinError_AcceptsOverpayment(sender, value) ==
    IF paused THEN "EnforcedPause"
    ELSE IF value < SPIN_COST THEN "IncorrectBetAmount"
    ELSE IF houseBalance < MAX_PRIZE THEN "InsufficientHouseBalance"
    ELSE IF timestamp < s_lastSpinTime[sender] + COOLDOWN_PERIOD THEN "CooldownNotExpired"
    ELSE IF ~(commits[sender].revealed \/ commits[sender].blockNumber = 0)
    THEN "Previous spin not revealed"
    ELSE "ok"

commitSpinError(sender, value) ==
    IF paused THEN "EnforcedPause"
    ELSE IF value # SPIN_COST THEN "IncorrectBetAmount"
    ELSE IF houseBalance < MAX_PRIZE THEN "InsufficientHouseBalance"
    ELSE IF timestamp < s_lastSpinTime[sender] + COOLDOWN_PERIOD THEN "CooldownNotExpired"
    ELSE IF ~(commits[sender].revealed \/ commits[sender].blockNumber = 0)
    THEN "Previous spin not revealed"
    ELSE "ok"

\* The commit hash left without the running nonce.
commitHashOf_FixedNonce(secretHash, sender) ==
    keccak256(<<secretHash, sender, timestamp, 0>>)

\* The commit hash of lines 168-173: nonce++ passes the value before the
\* increment.
commitHashOf(secretHash, sender) ==
    keccak256(<<secretHash, sender, timestamp, nonce>>)

\* commitSpin counting the commit as a resolved spin.
commitSpin_CountsSpin(sender, value, secretHash) ==
    LET err == commitSpinError(sender, value)
    IN IF err # "ok"
       THEN Revert("commitSpin", sender, value, err)
       ELSE /\ nonce < MaxNonce
            /\ balance + value <= MaxBalance
            /\ balance' = balance + value
            /\ houseBalance' = houseBalance + value
            /\ s_lastSpinTime' = [s_lastSpinTime EXCEPT ![sender] = timestamp]
            /\ nonce' = nonce + 1
            /\ commits' = [commits EXCEPT ![sender] =
                              [commitHash |-> commitHashOf(secretHash, sender),
                               blockNumber |-> blockNumber,
                               betAmount |-> value,
                               revealed |-> FALSE]]
            /\ playerTotalSpins' = [playerTotalSpins EXCEPT ![sender] = @ + 1]
            /\ lastCall' = Call("commitSpin", sender, value, "ok", 0, FALSE, "none",
                                "SpinCommitted")
            /\ UNCHANGED <<playerTotalWins, paused>>
            /\ UNCHANGED chain

commitSpin(sender, value, secretHash) ==
    LET err == commitSpinError(sender, value)
    IN IF err # "ok"
       THEN Revert("commitSpin", sender, value, err)
       ELSE /\ nonce < MaxNonce
            /\ balance + value <= MaxBalance
            /\ balance' = balance + value
            /\ houseBalance' = houseBalance + value
            /\ s_lastSpinTime' = [s_lastSpinTime EXCEPT ![sender] = timestamp]
            /\ nonce' = nonce + 1
            /\ commits' = [commits EXCEPT ![sender] =
                              [commitHash |-> commitHashOf(secretHash, sender),
                               blockNumber |-> blockNumber,
                               betAmount |-> value,
                               revealed |-> FALSE]]
            /\ lastCall' = Call("commitSpin", sender, value, "ok", 0, FALSE, "none",
                                "SpinCommitted")
            /\ UNCHANGED <<playerTotalSpins, playerTotalWins, paused>>
            /\ UNCHANGED chain

\* ------------------------------------------------------------------------
\* revealSpin (lines 193-262).
\* The commitment recomputed at reveal time (lines 217-223).
expectedCommit(sender, secret) ==
    keccak256(<<keccak256(secret), sender, s_lastSpinTime[sender], nonce - 1>>)

revealSpinError_NoRevealedCheck(sender, secret) ==
    IF paused THEN "EnforcedPause"
    ELSE IF commits[sender].blockNumber = 0 THEN "NoCommitFound"
    ELSE IF blockNumber < commits[sender].blockNumber + REVEAL_DELAY THEN "RevealTooEarly"
    ELSE IF nonce = 0 THEN "Panic"
    ELSE IF ~(expectedCommit(sender, secret) = commits[sender].commitHash)
    THEN "Invalid secret"
    ELSE "ok"

revealSpinError_NoSecretCheck(sender, secret) ==
    IF paused THEN "EnforcedPause"
    ELSE IF commits[sender].blockNumber = 0 THEN "NoCommitFound"
    ELSE IF commits[sender].revealed THEN "CommitAlreadyRevealed"
    ELSE IF blockNumber < commits[sender].blockNumber + REVEAL_DELAY THEN "RevealTooEarly"
    ELSE "ok"

\* The modifiers and the checks of lines 199-225.  nonce - 1 is checked
\* arithmetic: it panics on a zero nonce.
revealSpinError(sender, secret) ==
    IF paused THEN "EnforcedPause"
    ELSE IF commits[sender].blockNumber = 0 THEN "NoCommitFound"
    ELSE IF commits[sender].revealed THEN "CommitAlreadyRevealed"
    ELSE IF blockNumber < commits[sender].blockNumber + REVEAL_DELAY THEN "RevealTooEarly"
    ELSE IF nonce = 0 THEN "Panic"
    ELSE IF ~(expectedCommit(sender, secret) = commits[sender].commitHash)
    THEN "Invalid secret"
    ELSE "ok"

\* revealSpin advancing the nonce as the other two spin entry points do.
revealSpin_AdvancesNonce(sender, secret, randomNumber, cb) ==
    LET err == revealSpinError(sender, secret)
        prize == _calculatePrize(randomNumber)
        pay == Payout(sender, prize, cb, houseBalance, balance, paused,
                      playerTotalWins[sender])
    IN IF err # "ok"
       THEN Revert("revealSpin", sender, secret, err)
       ELSE IF pay.err # "ok"
       THEN Revert("revealSpin", sender, secret, pay.err)
       ELSE /\ nonce < MaxNonce
            /\ nonce' = nonce + 1
            /\ commits' = [commits EXCEPT ![sender].revealed = TRUE]
            /\ houseBalance' = pay.houseBalance
            /\ balance' = pay.balance
            /\ paused' = pay.paused
            /\ playerTotalWins' = [playerTotalWins EXCEPT ![sender] = pay.wins]
            /\ playerTotalSpins' = [playerTotalSpins EXCEPT ![sender] = @ + 1]
            /\ lastCall' = Call("revealSpin", sender, secret, "ok", prize, pay.sent, pay.cb,
                                "SpinRevealed")
            /\ UNCHANGED s_lastSpinTime
            /\ UNCHANGED chain

\* revealSpin restarting the cooldown at the resolution of the spin.
revealSpin_RestartsCooldown(sender, secret, randomNumber, cb) ==
    LET err == revealSpinError(sender, secret)
        prize == _calculatePrize(randomNumber)
        pay == Payout(sender, prize, cb, houseBalance, balance, paused,
                      playerTotalWins[sender])
    IN IF err # "ok"
       THEN Revert("revealSpin", sender, secret, err)
       ELSE IF pay.err # "ok"
       THEN Revert("revealSpin", sender, secret, pay.err)
       ELSE /\ s_lastSpinTime' = [s_lastSpinTime EXCEPT ![sender] = timestamp]
            /\ commits' = [commits EXCEPT ![sender].revealed = TRUE]
            /\ houseBalance' = pay.houseBalance
            /\ balance' = pay.balance
            /\ paused' = pay.paused
            /\ playerTotalWins' = [playerTotalWins EXCEPT ![sender] = pay.wins]
            /\ playerTotalSpins' = [playerTotalSpins EXCEPT ![sender] = @ + 1]
            /\ lastCall' = Call("revealSpin", sender, secret, "ok", prize, pay.sent, pay.cb,
                                "SpinRevealed")
            /\ UNCHANGED nonce
            /\ UNCHANGED chain

\* randomNumber stands for _generateRandomNumber (lines 429-443): a hash of
\* the secret and of block data the contract does not control, modulo 1000.
revealSpin(sender, secret, randomNumber, cb) ==
    LET err == revealSpinError(sender, secret)
        prize == _calculatePrize(randomNumber)
        pay == Payout(sender, prize, cb, houseBalance, balance, paused,
                      playerTotalWins[sender])
    IN IF err # "ok"
       THEN Revert("revealSpin", sender, secret, err)
       ELSE IF pay.err # "ok"
       THEN Revert("revealSpin", sender, secret, pay.err)
       ELSE /\ commits' = [commits EXCEPT ![sender].revealed = TRUE]
            /\ houseBalance' = pay.houseBalance
            /\ balance' = pay.balance
            /\ paused' = pay.paused
            /\ playerTotalWins' = [playerTotalWins EXCEPT ![sender] = pay.wins]
            /\ playerTotalSpins' = [playerTotalSpins EXCEPT ![sender] = @ + 1]
            /\ lastCall' = Call("revealSpin", sender, secret, "ok", prize, pay.sent, pay.cb,
                                "SpinRevealed")
            /\ UNCHANGED <<nonce, s_lastSpinTime>>
            /\ UNCHANGED chain

\* ------------------------------------------------------------------------
\* quickSpin (lines 269-329).
quickSpinError_CooldownOffByOne(sender, value) ==
    IF paused THEN "EnforcedPause"
    ELSE IF value # SPIN_COST THEN "IncorrectBetAmount"
    ELSE IF houseBalance < MAX_PRIZE THEN "InsufficientHouseBalance"
    ELSE IF timestamp <= s_lastSpinTime[sender] + COOLDOWN_PERIOD THEN "CooldownNotExpired"
    ELSE "ok"

quickSpinError_NoSolvencyCheck(sender, value) ==
    IF paused THEN "EnforcedPause"
    ELSE IF value # SPIN_COST THEN "IncorrectBetAmount"
    ELSE IF timestamp < s_lastSpinTime[sender] + COOLDOWN_PERIOD THEN "CooldownNotExpired"
    ELSE "ok"

quickSpinError_IgnoresPause(sender, value) ==
    IF value # SPIN_COST THEN "IncorrectBetAmount"
    ELSE IF houseBalance < MAX_PRIZE THEN "InsufficientHouseBalance"
    ELSE IF timestamp < s_lastSpinTime[sender] + COOLDOWN_PERIOD THEN "CooldownNotExpired"
    ELSE "ok"

quickSpinError(sender, value) ==
    IF paused THEN "EnforcedPause"
    ELSE IF value # SPIN_COST THEN "IncorrectBetAmount"
    ELSE IF houseBalance < MAX_PRIZE THEN "InsufficientHouseBalance"
    ELSE IF timestamp < s_lastSpinTime[sender] + COOLDOWN_PERIOD THEN "CooldownNotExpired"
    ELSE "ok"

\* quickSpin without houseBalance += msg.value (line 293).
quickSpin_WagerNotBooked(sender, value, randomNumber, cb) ==
    LET err == quickSpinError(sender, value)
        prize == _calculatePrize(randomNumber)
        pay == Payout(sender, prize, cb, houseBalance, balance + value, paused,
                      playerTotalWins[sender])
    IN IF err # "ok"
       THEN Revert("quickSpin", sender, value, err)
       ELSE IF pay.err # "ok"
       THEN Revert("quickSpin", sender, value, pay.err)
       ELSE /\ nonce < MaxNonce
            /\ pay.balance <= MaxBalance
            /\ s_lastSpinTime' = [s_lastSpinTime EXCEPT ![sender] = timestamp]
            /\ nonce' = nonce + 1
            /\ houseBalance' = pay.houseBalance
            /\ balance' = pay.balance
            /\ paused' = pay.paused
            /\ playerTotalWins' = [playerTotalWins EXCEPT ![sender] = pay.wins]
            /\ playerTotalSpins' = [playerTotalSpins EXCEPT ![sender] = @ + 1]
            /\ lastCall' = Call("quickSpin", sender, value, "ok", prize, pay.sent, pay.cb,
                                "SpinRevealed")
            /\ UNCHANGED commits
            /\ UNCHANGED chain

\* quickSpin keeping one last-spin time for all players.
quickSpin_SharedCooldown(sender, value, randomNumber, cb) ==
    LET err == quickSpinError(sender, value)
        prize == _calculatePrize(randomNumber)
        pay == Payout(sender, prize, cb, houseBalance + value, balance + value, paused,
                      playerTotalWins[sender])
    IN IF err # "ok"
       THEN Revert("quickSpin", sender, value, err)
       ELSE IF pay.err # "ok"
       THEN Revert("quickSpin", sender, value, pay.err)
       ELSE /\ nonce < MaxNonce
            /\ pay.balance <= MaxBalance
            /\ s_lastSpinTime' = [a \in Accounts |-> timestamp]
            /\ nonce' = nonce + 1
            /\ houseBalance' = pay.houseBalance
            /\ balance' = pay.balance
            /\ paused' = pay.paused
            /\ playerTotalWins' = [playerTotalWins EXCEPT ![sender] = pay.wins]
            /\ playerTotalSpins' = [playerTotalSpins EXCEPT ![sender] = @ + 1]
            /\ lastCall' = Call("quickSpin", sender, value, "ok", prize, pay.sent, pay.cb,
                                "SpinRevealed")
            /\ UNCHANGED commits
            /\ UNCHANGED chain

\* randomNumber stands for _generateQuickRandomNumber (lines 449-459), which
\* also advances the nonce.
quickSpin(sender, value, randomNumber, cb) ==
    LET err == quickSpinError(sender, value)
        prize == _calculatePrize(randomNumber)
        pay == Payout(sender, prize, cb, houseBalance + value, balance + value, paused,
                      playerTotalWins[sender])
    IN IF err # "ok"
       THEN Revert("quickSpin", sender, value, err)
       ELSE IF pay.err # "ok"
       THEN Revert("quickSpin", sender, value, pay.err)
       ELSE /\ nonce < MaxNonce
            /\ pay.balance <= MaxBalance
            /\ s_lastSpinTime' = [s_lastSpinTime EXCEPT ![sender] = timestamp]
            /\ nonce' = nonce + 1
            /\ houseBalance' = pay.houseBalance
            /\ balance' = pay.balance
            /\ paused' = pay.paused
            /\ playerTotalWins' = [playerTotalWins EXCEPT ![sender] = pay.wins]
            /\ playerTotalSpins' = [playerTotalSpins EXCEPT ![sender] = @ + 1]
            /\ lastCall' = Call("quickSpin", sender, value, "ok", prize, pay.sent, pay.cb,
                                "SpinRevealed")
            /\ UNCHANGED commits
            /\ UNCHANGED chain

\* ------------------------------------------------------------------------
\* pause without onlyOwner.
pauseError_AnyCaller(sender) ==
    IF paused THEN "EnforcedPause" ELSE "ok"

\* pause (lines 334-336) and unpause (lines 341-343).
pauseError(sender) ==
    IF sender # Owner THEN "OwnableUnauthorizedAccount"
    ELSE IF paused THEN "EnforcedPause"
    ELSE "ok"

pause(sender) ==
    LET err == pauseError(sender)
    IN IF err # "ok"
       THEN Revert("pause", sender, 0, err)
       ELSE /\ paused' = TRUE
            /\ lastCall' = Call("pause", sender, 0, "ok", 0, FALSE, "none", "Paused")
            /\ UNCHANGED <<houseBalance, balance, nonce, commits, s_lastSpinTime,
                           playerTotalSpins, playerTotalWins>>
            /\ UNCHANGED chain

unpauseError(sender) ==
    IF sender # Owner THEN "OwnableUnauthorizedAccount"
    ELSE IF ~paused THEN "ExpectedPause"
    ELSE "ok"

unpause(sender) ==
    LET err == unpauseError(sender)
    IN IF err # "ok"
       THEN Revert("unpause", sender, 0, err)
       ELSE /\ paused' = FALSE
            /\ lastCall' = Call("unpause", sender, 0, "ok", 0, FALSE, "none", "Unpaused")
            /\ UNCHANGED <<houseBalance, balance, nonce, commits, s_lastSpinTime,
                           playerTotalSpins, playerTotalWins>>
            /\ UNCHANGED chain

\* ------------------------------------------------------------------------
\* emergencyWithdraw without whenPaused.
emergencyWithdrawError_NoPauseCheck(sender) ==
    IF sender # Owner THEN "OwnableUnauthorizedAccount"
    ELSE "ok"

\* emergencyWithdraw (lines 413-421).
emergencyWithdrawError(sender) ==
    IF sender # Owner THEN "OwnableUnauthorizedAccount"
    ELSE IF ~paused THEN "ExpectedPause"
    ELSE "ok"

emergencyWithdraw(sender, cb) ==
    LET err == emergencyWithdrawError(sender)
        t == Transfer(Owner, balance, cb, 0, balance, paused)
    IN IF err # "ok"
       THEN Revert("emergencyWithdraw", sender, 0, err)
       ELSE IF ~t.success
       THEN Revert("emergencyWithdraw", sender, 0, "TransferFailed")
       ELSE /\ houseBalance' = t.houseBalance
            /\ balance' = t.balance
            /\ paused' = t.paused
            /\ lastCall' = Call("emergencyWithdraw", sender, balance, "ok", 0, TRUE, cb,
                                "FundsWithdrawn")
            /\ UNCHANGED <<nonce, commits, s_lastSpinTime, playerTotalSpins, playerTotalWins>>
            /\ UNCHANGED chain

\* ------------------------------------------------------------------------
\* The environment.
\* A new block: the height advances by one and the timestamp by dt seconds.
MineBlock(dt) ==
    /\ blockNumber < MaxBlock
    /\ blockNumber' = blockNumber + 1
    /\ timestamp' = timestamp + dt
    /\ UNCHANGED storage
    /\ UNCHANGED lastCall

\* Value credited to the contract's address without any of its code running
\* (a self-destructing contract naming it as beneficiary, a block reward):
\* address(this).balance (lines 355, 414) grows, houseBalance does not.
ForceSend(value) ==
    /\ balance - houseBalance + value <= MaxStray
    /\ balance + value <= MaxBalance
    /\ balance' = balance + value
    /\ UNCHANGED <<houseBalance, nonce, commits, s_lastSpinTime, playerTotalSpins,
                   playerTotalWins, paused>>
    /\ UNCHANGED chain
    /\ UNCHANGED lastCall

\* ------------------------------------------------------------------------
\* The transactions sent to the contract, with their inputs.  A transaction
\* is taken when the outcome of the previous one has been reported.
Idle == lastCall = NoCall

\* A call that reverts before it resolves a prize, or that resolves a prize of
\* zero, makes no transfer: its outcome does not depend on the draw or on
\* the recipient, and one representative of each is enough.
Canonical(err, randomNumber, cb) ==
    /\ err # "ok" => \A r \in Draws : randomNumber <= r
    /\ (err # "ok" \/ _calculatePrize(randomNumber) = 0) => cb = "accept"

DepositFundsTx ==
    \E a \in Accounts, v \in DepositValues : Idle /\ depositFunds(a, v)

ReceiveTx ==
    \E a \in Accounts, v \in BareValues : Idle /\ receive(a, v)

FallbackTx ==
    \E a \in Accounts, v \in BareValues : Idle /\ fallback(a, v)

WithdrawFundsTx ==
    \E a \in Accounts, n \in WithdrawAmounts, cb \in Callbacks :
        /\ Idle
        /\ withdrawFundsError(a, n) # "ok" => cb = "accept"
        /\ withdrawFunds(a, n, cb)

CommitSpinTx ==
    \E a \in Accounts, v \in BetValues, s \in CommitSecrets :
        Idle /\ commitSpin(a, v, keccak256(s))

RevealSpinTx ==
    \E a \in Accounts, s \in Secrets, r \in Draws, cb \in Callbacks :
        /\ Idle
        /\ Canonical(revealSpinError(a, s), r, cb)
        /\ revealSpin(a, s, r, cb)

QuickSpinTx ==
    \E a \in Accounts, v \in BetValues, r \in Draws, cb \in Callbacks :
        /\ Idle
        /\ Canonical(quickSpinError(a, v), r, cb)
        /\ quickSpin(a, v, r, cb)

PauseTx == \E a \in Accounts : Idle /\ pause(a)

UnpauseTx == \E a \in Accounts : Idle /\ unpause(a)

EmergencyWithdrawTx ==
    \E a \in Accounts, cb \in Callbacks :
        /\ Idle
        /\ emergencyWithdrawError(a) # "ok" => cb = "accept"
        /\ emergencyWithdraw(a, cb)

NewBlock == \E dt \in BlockTimes : Idle /\ MineBlock(dt)

StrayValue == \E v \in StrayValues : Idle /\ ForceSend(v)

\* The outcome of a transaction has been reported: the next one can be taken.
Receipt ==
    /\ ~Idle
    /\ lastCall' = NoCall
    /\ UNCHANGED storage
    /\ UNCHANGED chain

Next ==
    \/ DepositFundsTx
    \/ ReceiveTx
    \/ FallbackTx
    \/ WithdrawFundsTx
    \/ CommitSpinTx
    \/ RevealSpinTx
    \/ QuickSpinTx
    \/ PauseTx
    \/ UnpauseTx
    \/ EmergencyWithdrawTx
    \/ NewBlock
    \/ StrayValue
    \/ Receipt

Spec == Init /\ [][Next]_vars

\* ------------------------------------------------------------------------
\* The contract when value reaches it only through its payable entry points
\* (depositFunds, commitSpin, quickSpin, receive, fallback): every
\* transaction and the passage of blocks, without value credited behind the
\* code's back.
PayableNext ==
    \/ DepositFundsTx
    \/ ReceiveTx
    \/ FallbackTx
    \/ WithdrawFundsTx
    \/ CommitSpinTx
    \/ RevealSpinTx
    \/ QuickSpinTx
    \/ PauseTx
    \/ UnpauseTx
    \/ EmergencyWithdrawTx
    \/ NewBlock
    \/ Receipt

PayableSpec == Init /\ [][PayableNext]_vars

\* ------------------------------------------------------------------------
\* The prize lookup on its own: every draw the two generators can produce
\* (a hash modulo DrawModulus, lines 442 and 458) is handed to
\* _calculatePrize on a freshly constructed contract, and lastCall reports
\* the draw and the prize.
PrizeInit ==
    /\ houseBalance = 0
    /\ balance = 0
    /\ nonce = 0
    /\ commits = [a \in Accounts |-> NoCommit]
    /\ s_lastSpinTime = [a \in Accounts |-> 0]
    /\ playerTotalSpins = [a \in Accounts |-> 0]
    /\ playerTotalWins = [a \in Accounts |-> 0]
    /\ paused = FALSE
    /\ blockNumber = 1
    /\ timestamp = StartTime
    /\ \E randomNumber \in 0..(DrawModulus - 1) :
          lastCall = Call("draw", Owner, randomNumber, "ok", 0, FALSE, "none", "none")

CalculatePrize ==
    /\ lastCall.op = "draw"
    /\ lastCall' = Call("_calculatePrize", Owner, lastCall.arg, "ok",
                        _calculatePrize(lastCall.arg), FALSE, "none", "none")
    /\ UNCHANGED storage
    /\ UNCHANGED chain

PrizeNext == CalculatePrize

PrizeSpec == PrizeInit /\ [][PrizeNext]_vars

\* ========================================================================
\* Properties.
\*
\* A step that reports a transaction is one that sets lastCall; the primed
\* lastCall names the call and its outcome, the unprimed variables are the
\* state the call ran in.
IsSpin(op) == op \in {"commitSpin", "quickSpin"}

\* The secret hash that went into the stored commit hash of player p.
committedSecretHash(p) == commits[p].commitHash[2][1]

\* ------------------------------------------------------------------------
\* C1: in every reachable state houseBalance is at most the value the
\* contract holds.
C1_HouseBalanceWithinHeldValue == houseBalance <= balance

\* A reveal whose prize transfer failed, with stray value held on top of
\* the house balance.
C1_Witness ==
    /\ lastCall.op = "revealSpin"
    /\ lastCall.err = "ok"
    /\ lastCall.prize > 0
    /\ ~lastCall.sent
    /\ houseBalance < balance

\* ------------------------------------------------------------------------
\* C2: a spin that passed admission is never refused its resolution for
\* lack of house funds: no revealSpin or quickSpin reverts with
\* "Insufficient house balance".
C2_ResolutionNeverLacksFunds ==
    lastCall.op \in {"revealSpin", "quickSpin"} => lastCall.err # "Insufficient house balance"

\* ------------------------------------------------------------------------
\* C3: a reveal that reached the commitment check with the secret whose hash
\* the player committed is not rejected as an invalid secret.
C3_CommittedSecretPassesCheck ==
    (lastCall.op = "revealSpin" /\ lastCall.err = "Invalid secret")
        => keccak256(lastCall.arg) # committedSecretHash(lastCall.sender)

\* ------------------------------------------------------------------------
\* C4 as stated: a revealSpin by a player without a commit record fails with
\* NoCommitFound, with a revealed record with CommitAlreadyRevealed, and with
\* an unrevealed record younger than REVEAL_DELAY blocks with RevealTooEarly.
C4_Original ==
    [][lastCall'.op = "revealSpin" =>
         LET c == commits[lastCall'.sender]
         IN /\ c.blockNumber = 0 => lastCall'.err = "NoCommitFound"
            /\ (c.blockNumber > 0 /\ c.revealed) => lastCall'.err = "CommitAlreadyRevealed"
            /\ (c.blockNumber > 0 /\ ~c.revealed /\ blockNumber < c.blockNumber + REVEAL_DELAY)
                   => lastCall'.err = "RevealTooEarly"]_vars

\* C4 amended: the three errors are the ones reported while the contract is
\* not paused; while it is paused every revealSpin fails with EnforcedPause.
\* Either way a reveal succeeds only on an unrevealed commit that is at
\* least REVEAL_DELAY blocks old.
C4_RevealOnceAndNotEarly ==
    [][lastCall'.op = "revealSpin" =>
         LET c == commits[lastCall'.sender]
         IN /\ paused => lastCall'.err = "EnforcedPause"
            /\ (~paused /\ c.blockNumber = 0) => lastCall'.err = "NoCommitFound"
            /\ (~paused /\ c.blockNumber > 0 /\ c.revealed)
                   => lastCall'.err = "CommitAlreadyRevealed"
            /\ (~paused /\ c.blockNumber > 0 /\ ~c.revealed
                  /\ blockNumber < c.blockNumber + REVEAL_DELAY)
                   => lastCall'.err = "RevealTooEarly"
            /\ lastCall'.err = "ok" =>
                   /\ c.blockNumber > 0
                   /\ ~c.revealed
                   /\ blockNumber >= c.blockNumber + REVEAL_DELAY]_vars

\* A second reveal of a commit that was already resolved.
C4_Witness ==
    /\ lastCall.op = "revealSpin"
    /\ lastCall.err = "CommitAlreadyRevealed"
    /\ playerTotalSpins[lastCall.sender] = 1

\* ------------------------------------------------------------------------
\* C5: a revealSpin with a secret whose hash is not the one the caller
\* committed fails and changes nothing.
C5_WrongSecretNeverReveals ==
    [][(/\ lastCall'.op = "revealSpin"
        /\ commits[lastCall'.sender].blockNumber > 0
        /\ keccak256(lastCall'.arg) # committedSecretHash(lastCall'.sender))
         => /\ lastCall'.err # "ok"
            /\ UNCHANGED storage]_vars

\* A wrong secret presented when every other check of the reveal passed.
C5_Witness ==
    /\ lastCall.op = "revealSpin"
    /\ lastCall.err = "Invalid secret"
    /\ keccak256(lastCall.arg) # committedSecretHash(lastCall.sender)

\* ------------------------------------------------------------------------
\* C6: a commitSpin by a player with a pending (unrevealed) commit is
\* refused, and no step overwrites a pending commit: its record changes
\* only by being marked revealed.
C6_PendingCommitNotOverwritten ==
    [][\A p \in Accounts :
         hasPendingCommit(p) =>
            /\ (lastCall'.op = "commitSpin" /\ lastCall'.sender = p) => lastCall'.err # "ok"
            /\ \/ commits'[p] = commits[p]
               \/ commits'[p] = [commits[p] EXCEPT !.revealed = TRUE]]_vars

\* A commit refused only because the previous one is unrevealed.
C6_Witness ==
    /\ lastCall.op = "commitSpin"
    /\ lastCall.err = "Previous spin not revealed"
    /\ hasPendingCommit(lastCall.sender)

\* ------------------------------------------------------------------------
\* The case of C7: a spin with exact payment by a player who has spun
\* before, on an active contract whose house balance covers MAX_PRIZE.
SecondSpin ==
    /\ IsSpin(lastCall'.op)
    /\ lastCall'.arg = SPIN_COST
    /\ ~paused
    /\ houseBalance >= MAX_PRIZE
    /\ playerTotalSpins[lastCall'.sender] > 0 \/ commits[lastCall'.sender].blockNumber > 0

\* C7 as stated: the second spin fails with CooldownNotExpired before
\* COOLDOWN_PERIOD has elapsed since the first was accepted, and succeeds from
\* then on.
C7_Original ==
    [][SecondSpin =>
         IF timestamp < s_lastSpinTime[lastCall'.sender] + COOLDOWN_PERIOD
         THEN lastCall'.err = "CooldownNotExpired"
         ELSE lastCall'.err = "ok"]_vars

\* C7 amended: once COOLDOWN_PERIOD has elapsed the second spin succeeds,
\* except a commitSpin made while the player's previous commit is
\* unrevealed, which fails with "Previous spin not revealed".
C7_CooldownBetweenSpins ==
    [][SecondSpin =>
         IF timestamp < s_lastSpinTime[lastCall'.sender] + COOLDOWN_PERIOD
         THEN lastCall'.err = "CooldownNotExpired"
         ELSE IF lastCall'.op = "commitSpin" /\ hasPendingCommit(lastCall'.sender)
         THEN lastCall'.err = "Previous spin not revealed"
         ELSE lastCall'.err = "ok"]_vars

\* A second spin of a player accepted exactly COOLDOWN_PERIOD after the first.
C7_Witness ==
    /\ lastCall.op = "quickSpin"
    /\ lastCall.err = "ok"
    /\ nonce = 2
    /\ timestamp = StartTime + COOLDOWN_PERIOD
    /\ \/ playerTotalSpins[lastCall.sender] = 2
       \/ commits[lastCall.sender].blockNumber = 1

\* ------------------------------------------------------------------------
\* The payout part of C8: the house balance is never negative, and a prize is
\* transferred only when the house balance the payout block saw covered it
\* (quickSpin adds the wager before it pays).
PayoutCovered ==
    /\ houseBalance' >= 0
    /\ (lastCall'.op = "revealSpin" /\ lastCall'.sent) => houseBalance >= lastCall'.prize
    /\ (lastCall'.op = "quickSpin" /\ lastCall'.sent)
          => houseBalance + SPIN_COST >= lastCall'.prize

\* C8 as stated: a commitSpin or quickSpin made while houseBalance is below
\* MAX_PRIZE is rejected with InsufficientHouseBalance.
C8_Original ==
    [][/\ (IsSpin(lastCall'.op) /\ houseBalance < MAX_PRIZE)
            => lastCall'.err = "InsufficientHouseBalance"
       /\ PayoutCovered]_vars

\* C8 amended: such a spin is always rejected; the error is
\* InsufficientHouseBalance when the contract is not paused and the payment
\* is exact, EnforcedPause when it is paused, IncorrectBetAmount otherwise.
C8_NoSpinWithoutCover ==
    [][/\ (IsSpin(lastCall'.op) /\ houseBalance < MAX_PRIZE)
            => lastCall'.err = (IF paused THEN "EnforcedPause"
                                ELSE IF lastCall'.arg # SPIN_COST THEN "IncorrectBetAmount"
                                ELSE "InsufficientHouseBalance")
       /\ PayoutCovered]_vars

\* A spin with exact payment refused because the house cannot cover a prize.
C8_Witness ==
    /\ IsSpin(lastCall.op)
    /\ lastCall.arg = SPIN_COST
    /\ lastCall.err = "InsufficientHouseBalance"
    /\ houseBalance > 0
    /\ houseBalance < MAX_PRIZE

\* ------------------------------------------------------------------------
\* C9 as stated: a spin is accepted only with a value of exactly SPIN_COST;
\* any other value is rejected with IncorrectBetAmount and leaves the house
\* balance, the nonce, the last-spin times and the commit records unchanged.
C9_Original ==
    [][IsSpin(lastCall'.op) =>
         /\ lastCall'.err = "ok" => lastCall'.arg = SPIN_COST
         /\ lastCall'.arg # SPIN_COST =>
               /\ lastCall'.err = "IncorrectBetAmount"
               /\ UNCHANGED <<houseBalance, nonce, s_lastSpinTime, commits>>]_vars

\* C9 amended: the error is IncorrectBetAmount while the contract is not
\* paused and EnforcedPause while it is.
C9_ExactPaymentOnly ==
    [][IsSpin(lastCall'.op) =>
         /\ lastCall'.err = "ok" => lastCall'.arg = SPIN_COST
         /\ lastCall'.arg # SPIN_COST =>
               /\ lastCall'.err = (IF paused THEN "EnforcedPause" ELSE "IncorrectBetAmount")
               /\ UNCHANGED <<houseBalance, nonce, s_lastSpinTime, commits>>]_vars

\* An overpaid commit refused on a contract that would have admitted it.
C9_Witness ==
    /\ lastCall.op = "commitSpin"
    /\ lastCall.arg > SPIN_COST
    /\ lastCall.err = "IncorrectBetAmount"
    /\ houseBalance >= MAX_PRIZE

\* ------------------------------------------------------------------------
\* C10: while the contract is paused every commitSpin, revealSpin and
\* quickSpin is rejected and changes nothing.
C10_PausedRejectsSpins ==
    [][(paused /\ lastCall'.op \in {"commitSpin", "revealSpin", "quickSpin"})
         => /\ lastCall'.err = "EnforcedPause"
            /\ UNCHANGED storage
            /\ UNCHANGED chain]_vars

\* A reveal refused by the pause although its commit is pending and old
\* enough.
C10_Witness ==
    /\ paused
    /\ lastCall.op = "revealSpin"
    /\ lastCall.err = "EnforcedPause"
    /\ hasPendingCommit(lastCall.sender)
    /\ blockNumber >= commits[lastCall.sender].blockNumber + REVEAL_DELAY

\* ------------------------------------------------------------------------
\* What the recipient of a transfer deposited back into the contract while
\* the transfer was being made.
NestedDeposit(cb) == IF cb = "receive" THEN CallbackValue ELSE 0

\* The variables no owner operation on the funds touches.
playerState == <<nonce, commits, s_lastSpinTime, playerTotalSpins, playerTotalWins>>

\* C11 as stated: emergencyWithdraw succeeds only when the owner calls it on
\* a paused contract; a successful call transfers the entire held value to
\* the owner and leaves houseBalance equal to 0; on an active contract it is
\* rejected and changes nothing.
C11_Original ==
    [][lastCall'.op = "emergencyWithdraw" =>
         /\ lastCall'.err = "ok" =>
               /\ lastCall'.sender = Owner
               /\ paused
               /\ lastCall'.sent
               /\ lastCall'.arg = balance
               /\ balance' = 0
               /\ houseBalance' = 0
         /\ ~paused => (lastCall'.err # "ok" /\ UNCHANGED storage)]_vars

\* C11 amended: the successful call sends the entire held value to the owner
\* and zeroes houseBalance before the transfer, so the contract ends holding,
\* and houseBalance ends equal to, exactly what the owner's receiving code
\* deposited back during the transfer: 0 when it deposited nothing.
C11_EmergencyWithdrawDrains ==
    [][lastCall'.op = "emergencyWithdraw" =>
         /\ lastCall'.err = "ok" => (lastCall'.sender = Owner /\ paused)
         /\ (lastCall'.sender = Owner /\ paused)
               => lastCall'.err \in {"ok", "TransferFailed"}
         /\ lastCall'.err = "ok" =>
               /\ lastCall'.sent
               /\ lastCall'.arg = balance
               /\ balance' = NestedDeposit(lastCall'.cb)
               /\ houseBalance' = NestedDeposit(lastCall'.cb)
               /\ UNCHANGED playerState
         /\ lastCall'.err # "ok" => UNCHANGED storage
         /\ ~paused => lastCall'.err \in {"OwnableUnauthorizedAccount", "ExpectedPause"}]_vars

\* An emergency withdrawal that took stray value along with the house
\* balance and left the contract empty.
C11_Witness ==
    /\ lastCall.op = "emergencyWithdraw"
    /\ lastCall.err = "ok"
    /\ lastCall.arg = MAX_PRIZE + 1
    /\ houseBalance = 0
    /\ balance = 0

\* ------------------------------------------------------------------------
\* C12: the paused flag changes only in a successful pause or unpause sent
\* by the owner; a pause or unpause by anyone else is rejected; these calls
\* change nothing but the flag, so a pause followed by an unpause leaves the
\* house balance, the nonce, the commit records, the last-spin times and the
\* statistics as they were; and once unpaused, a spin is admitted exactly
\* when the checks other than the pause admit it.
C12_PauseChangesOnlyTheFlag ==
    [][/\ paused' # paused =>
             /\ lastCall'.op = (IF paused THEN "unpause" ELSE "pause")
             /\ lastCall'.err = "ok"
             /\ lastCall'.sender = Owner
       /\ lastCall'.op \in {"pause", "unpause"} =>
             /\ lastCall'.sender # Owner => lastCall'.err = "OwnableUnauthorizedAccount"
             /\ lastCall'.err = "ok" => paused' # paused
             /\ UNCHANGED <<houseBalance, balance>>
             /\ UNCHANGED playerState
             /\ UNCHANGED chain
       /\ (lastCall'.op = "unpause" /\ lastCall'.err = "ok") =>
             \A a \in Accounts :
                /\ quickSpinError(a, SPIN_COST) = "EnforcedPause"
                /\ (quickSpinError(a, SPIN_COST))' = "ok"
                     <=> /\ houseBalance >= MAX_PRIZE
                         /\ timestamp >= s_lastSpinTime[a] + COOLDOWN_PERIOD
                /\ (commitSpinError(a, SPIN_COST))' = "ok"
                     <=> /\ houseBalance >= MAX_PRIZE
                         /\ timestamp >= s_lastSpinTime[a] + COOLDOWN_PERIOD
                         /\ ~hasPendingCommit(a)]_vars

\* An unpause after which a player who has spun before, and whose cooldown
\* has run out, can spin again.
C12_Witness ==
    /\ lastCall.op = "unpause"
    /\ lastCall.err = "ok"
    /\ ~paused
    /\ \E a \in Accounts :
          /\ playerTotalSpins[a] > 0
          /\ quickSpinError(a, SPIN_COST) = "ok"

\* ------------------------------------------------------------------------
\* C13: a depositFunds succeeds exactly when the owner sends it with a value
\* above 0, paused or not; a successful deposit adds exactly the value to
\* houseBalance (and to the held value) and changes nothing else; a deposit
\* by anyone else or of 0 is rejected and changes nothing.
C13_DepositFunds ==
    [][lastCall'.op = "depositFunds" =>
         /\ lastCall'.err = "ok" <=> (lastCall'.sender = Owner /\ lastCall'.arg > 0)
         /\ lastCall'.err = "ok" =>
               /\ houseBalance' = houseBalance + lastCall'.arg
               /\ balance' = balance + lastCall'.arg
               /\ lastCall'.event = "FundsDeposited"
               /\ UNCHANGED playerState
               /\ UNCHANGED paused
         /\ lastCall'.err # "ok" => UNCHANGED storage]_vars

\* A deposit accepted while the contract is paused.
C13_Witness ==
    /\ lastCall.op = "depositFunds"
    /\ lastCall.err = "ok"
    /\ lastCall.arg > 0
    /\ paused
    /\ houseBalance >= lastCall.arg

\* ------------------------------------------------------------------------
\* The failure part of C14: a withdrawFunds for more than houseBalance, by a
\* caller other than the owner, or whose transfer fails, fails and leaves
\* houseBalance and the held value unchanged.
WithdrawFailsCleanly ==
    /\ (lastCall'.arg > houseBalance \/ lastCall'.sender # Owner) => lastCall'.err # "ok"
    /\ lastCall'.err # "ok" => UNCHANGED storage
    /\ lastCall'.err = "ok" => lastCall'.sent

\* C14 as stated: a withdrawFunds(amount) by the owner with amount at most
\* houseBalance, unless its transfer fails, lowers houseBalance by exactly
\* amount and transfers amount to the owner.
C14_Original ==
    [][lastCall'.op = "withdrawFunds" =>
         /\ (lastCall'.sender = Owner /\ lastCall'.arg <= houseBalance) =>
               \/ lastCall'.err = "TransferFailed"
               \/ /\ lastCall'.err = "ok"
                  /\ houseBalance' = houseBalance - lastCall'.arg
                  /\ balance' = balance - lastCall'.arg
         /\ WithdrawFailsCleanly]_vars

\* C14 amended: houseBalance and the held value end amount lower than they
\* were, plus whatever the owner's receiving code deposited back into the
\* contract during the transfer.
C14_WithdrawFunds ==
    [][lastCall'.op = "withdrawFunds" =>
         /\ (lastCall'.sender = Owner /\ lastCall'.arg <= houseBalance) =>
               \/ lastCall'.err = "TransferFailed"
               \/ /\ lastCall'.err = "ok"
                  /\ houseBalance' = (houseBalance - lastCall'.arg) + NestedDeposit(lastCall'.cb)
                  /\ balance' = (balance - lastCall'.arg) + NestedDeposit(lastCall'.cb)
                  /\ UNCHANGED playerState
                  /\ UNCHANGED paused
         /\ WithdrawFailsCleanly]_vars

\* A withdrawal that left part of the house balance in the contract.
C14_Witness ==
    /\ lastCall.op = "withdrawFunds"
    /\ lastCall.err = "ok"
    /\ lastCall.cb = "accept"
    /\ lastCall.arg = MAX_PRIZE
    /\ houseBalance = SPIN_COST

\* ------------------------------------------------------------------------
\* C15: a bare transfer of v, taken by receive or by fallback, from any
\* sender and in either pause state, does what a successful depositFunds of
\* v does: it adds exactly v to houseBalance (and to the held value), emits
\* FundsDeposited and changes nothing else.
C15_BareTransferIsDeposit ==
    [][lastCall'.op \in {"receive", "fallback"} =>
         /\ lastCall'.err = "ok"
         /\ houseBalance' = houseBalance + lastCall'.arg
         /\ balance' = balance + lastCall'.arg
         /\ lastCall'.event = "FundsDeposited"
         /\ UNCHANGED playerState
         /\ UNCHANGED paused]_vars

\* A bare transfer from a player, taken by fallback on a paused contract
\* that has seen a spin.
C15_Witness ==
    /\ lastCall.op = "fallback"
    /\ lastCall.sender # Owner
    /\ lastCall.arg > 0
    /\ houseBalance >= lastCall.arg
    /\ nonce > 0
    /\ paused

\* ------------------------------------------------------------------------
\* C16: a revealSpin or quickSpin whose prize transfer fails still completes:
\* houseBalance ends as if no prize had been awarded (unchanged by a reveal,
\* raised by the wager by a quick spin), the held value likewise, the
\* player's winnings are unchanged, the commit of a reveal is marked
\* revealed, the player's spin count goes up by one and SpinRevealed is
\* emitted.
C16_FailedPrizeTransfer ==
    [][(/\ lastCall'.op \in {"revealSpin", "quickSpin"}
        /\ lastCall'.err = "ok"
        /\ lastCall'.prize > 0
        /\ ~lastCall'.sent) =>
         LET p == lastCall'.sender
             wager == IF lastCall'.op = "quickSpin" THEN lastCall'.arg ELSE 0
         IN /\ houseBalance' = houseBalance + wager
            /\ balance' = balance + wager
            /\ playerTotalWins' = playerTotalWins
            /\ playerTotalSpins' = [playerTotalSpins EXCEPT ![p] = @ + 1]
            /\ lastCall'.event = "SpinRevealed"
            /\ lastCall'.op = "revealSpin" =>
                  /\ ~commits[p].revealed
                  /\ commits' = [commits EXCEPT ![p].revealed = TRUE]
            /\ lastCall'.op = "quickSpin" => UNCHANGED commits]_vars

\* A reveal that drew the top prize, whose transfer the player's account
\* rejected.
C16_Witness ==
    /\ lastCall.op = "revealSpin"
    /\ lastCall.err = "ok"
    /\ lastCall.prize = MAX_PRIZE
    /\ ~lastCall.sent
    /\ lastCall.cb = "reject"
    /\ commits[lastCall.sender].revealed
    /\ playerTotalWins[lastCall.sender] = 0
    /\ playerTotalSpins[lastCall.sender] = 1

\* ------------------------------------------------------------------------
\* C17: playerTotalSpins[p] goes up by exactly 1 in each successful
\* revealSpin or quickSpin sent by p, whatever the prize and whether or not
\* it was paid, and is changed by no other step; playerTotalSpins[p] and
\* playerTotalWins[p] never go down.
C17_SpinCount ==
    [][\A p \in Accounts :
         /\ playerTotalSpins'[p] =
               IF /\ lastCall'.op \in {"revealSpin", "quickSpin"}
                  /\ lastCall'.err = "ok"
                  /\ lastCall'.sender = p
               THEN playerTotalSpins[p] + 1
               ELSE playerTotalSpins[p]
         /\ playerTotalWins'[p] >= playerTotalWins[p]
         /\ playerTotalWins'[p] > playerTotalWins[p] =>
               /\ lastCall'.op \in {"revealSpin", "quickSpin"}
               /\ lastCall'.sender = p
               /\ lastCall'.sent
               /\ playerTotalWins'[p] = playerTotalWins[p] + lastCall'.prize]_vars

\* The second resolved spin of a player, one that drew no prize.
C17_Witness ==
    /\ lastCall.op = "quickSpin"
    /\ lastCall.err = "ok"
    /\ lastCall.prize = 0
    /\ playerTotalSpins[lastCall.sender] = 2
    /\ commits[lastCall.sender].revealed

\* ------------------------------------------------------------------------
\* The prize a call transferred to the player: its prize when the transfer
\* was made and succeeded, 0 otherwise.
PrizeTransferred(call) == IF call.sent THEN call.prize ELSE 0

\* The commitSpin part of C18: a successful commitSpin leaves houseBalance
\* SPIN_COST above its previous value and sets the caller's last-spin time to
\* the current timestamp.
CommitBooksWager ==
    (lastCall'.op = "commitSpin" /\ lastCall'.err = "ok") =>
        /\ houseBalance' = houseBalance + SPIN_COST
        /\ balance' = balance + SPIN_COST
        /\ s_lastSpinTime' = [s_lastSpinTime EXCEPT ![lastCall'.sender] = timestamp]

\* C18 as stated: a successful quickSpin leaves houseBalance at its previous
\* value plus SPIN_COST minus the prize transferred, and sets the caller's
\* last-spin time to the current timestamp, whatever the prize.
C18_Original ==
    [][/\ CommitBooksWager
       /\ (lastCall'.op = "quickSpin" /\ lastCall'.err = "ok") =>
             /\ houseBalance' = (houseBalance + SPIN_COST) - PrizeTransferred(lastCall')
             /\ s_lastSpinTime' = [s_lastSpinTime EXCEPT ![lastCall'.sender] = timestamp]]_vars

\* C18 amended: plus whatever the player's receiving code deposited into the
\* contract during the prize transfer.
C18_WagerBookedOnAdmission ==
    [][/\ CommitBooksWager
       /\ (lastCall'.op = "quickSpin" /\ lastCall'.err = "ok") =>
             /\ houseBalance' = ((houseBalance + SPIN_COST) - PrizeTransferred(lastCall'))
                                   + NestedDeposit(lastCall'.cb)
             /\ balance' = ((balance + SPIN_COST) - PrizeTransferred(lastCall'))
                              + NestedDeposit(lastCall'.cb)
             /\ s_lastSpinTime' = [s_lastSpinTime EXCEPT ![lastCall'.sender] = timestamp]]_vars

\* A quick spin that paid the top prize out of a house balance of exactly
\* MAX_PRIZE, one block after the start.
C18_Witness ==
    /\ lastCall.op = "quickSpin"
    /\ lastCall.err = "ok"
    /\ lastCall.prize = MAX_PRIZE
    /\ lastCall.sent
    /\ lastCall.cb = "accept"
    /\ houseBalance = SPIN_COST
    /\ timestamp > StartTime
    /\ s_lastSpinTime[lastCall.sender] = timestamp

\* ------------------------------------------------------------------------
\* One ether in the unit of the model: MAX_PRIZE is 1 ether (line 36).
Ether == MAX_PRIZE

\* C19: for every draw r in 0..999 the prize is the one the cutoffs select,
\* r < 600 -> 0, r < 900 -> 0.05, r < 950 -> 0.1, r < 980 -> 0.2,
\* r < 995 -> 0.5, otherwise 1 ether; it is one of the six fixed amounts, it
\* is at least the prize of every smaller draw, and it is at most MAX_PRIZE.
C19_PrizeTiers ==
    lastCall.op = "_calculatePrize" =>
        LET r == lastCall.arg
            prize == lastCall.prize
        IN /\ r \in 0..999
           /\ 100 * prize = Ether * (IF r < 600 THEN 0
                                     ELSE IF r < 900 THEN 5
                                     ELSE IF r < 950 THEN 10
                                     ELSE IF r < 980 THEN 20
                                     ELSE IF r < 995 THEN 50
                                     ELSE 100)
           /\ prize \in {PRIZE_0, PRIZE_1, PRIZE_2, PRIZE_3, PRIZE_4, PRIZE_5}
           /\ \A q \in 0..r : _calculatePrize(q) <= prize
           /\ prize <= MAX_PRIZE

\* The last draw of the 0.5 ether tier.
C19_Witness ==
    /\ lastCall.op = "_calculatePrize"
    /\ lastCall.arg = 994
    /\ 2 * lastCall.prize = Ether

\* ------------------------------------------------------------------------
\* The entry points that make a value transfer under the reentrancy guard.
GuardedTransfer(call) ==
    /\ call.op \in {"withdrawFunds", "revealSpin", "quickSpin", "emergencyWithdraw"}
    /\ call.err = "ok"
    /\ call.sent

\* The house balance and the held value the bookkeeping of the call itself
\* leaves, nested calls apart.
OwnHouseBalance(call) ==
    IF call.op = "withdrawFunds" THEN houseBalance - call.arg
    ELSE IF call.op = "emergencyWithdraw" THEN 0
    ELSE IF call.op = "revealSpin" THEN houseBalance - call.prize
    ELSE (houseBalance + call.arg) - call.prize

OwnBalance(call) ==
    IF call.op = "withdrawFunds" THEN balance - call.arg
    ELSE IF call.op = "emergencyWithdraw" THEN 0
    ELSE IF call.op = "revealSpin" THEN balance - call.prize
    ELSE (balance + call.arg) - call.prize

\* What the bookkeeping of the call itself does to the nonce, the commit
\* records, the last-spin times, the statistics and the paused flag.
OwnBookkeeping(call) ==
    LET p == call.sender
    IN /\ paused' = paused
       /\ call.op \in {"withdrawFunds", "emergencyWithdraw"} => UNCHANGED playerState
       /\ call.op = "revealSpin" =>
             /\ commits' = [commits EXCEPT ![p].revealed = TRUE]
             /\ UNCHANGED <<nonce, s_lastSpinTime>>
       /\ call.op = "quickSpin" =>
             /\ nonce' = nonce + 1
             /\ s_lastSpinTime' = [s_lastSpinTime EXCEPT ![p] = timestamp]
             /\ UNCHANGED commits
       /\ call.op \in {"revealSpin", "quickSpin"} =>
             /\ playerTotalSpins' = [playerTotalSpins EXCEPT ![p] = @ + 1]
             /\ playerTotalWins' = [playerTotalWins EXCEPT ![p] = @ + call.prize]

\* C20 as stated: whatever the recipient of the transfer of a guarded call
\* does, no call it makes into the contract changes the contract's state:
\* the call ends in the state its own bookkeeping produces.
C20_Original ==
    [][GuardedTransfer(lastCall') =>
         /\ houseBalance' = OwnHouseBalance(lastCall')
         /\ balance' = OwnBalance(lastCall')
         /\ OwnBookkeeping(lastCall')]_vars

\* C20 amended: a nested call into an entry point that carries the guard
\* (here withdrawFunds) is turned away and changes nothing; a nested bare
\* transfer is not: receive carries no guard and adds the value to
\* houseBalance while the outer call is still running.  Nothing but
\* houseBalance and the held value is touched by it.
C20_GuardBlocksGuardedEntryPoints ==
    [][GuardedTransfer(lastCall') =>
         /\ houseBalance' = OwnHouseBalance(lastCall') + NestedDeposit(lastCall'.cb)
         /\ balance' = OwnBalance(lastCall') + NestedDeposit(lastCall'.cb)
         /\ lastCall'.cb = "withdrawFunds" =>
               /\ houseBalance' = OwnHouseBalance(lastCall')
               /\ balance' = OwnBalance(lastCall')
         /\ OwnBookkeeping(lastCall')]_vars

\* A withdrawal during which the owner called withdrawFunds again for an
\* amount the house balance still covered.
C20_Witness ==
    /\ lastCall.op = "withdrawFunds"
    /\ lastCall.err = "ok"
    /\ lastCall.sender = Owner
    /\ lastCall.cb = "withdrawFunds"
    /\ houseBalance >= CallbackAmount
    /\ balance >= CallbackAmount

\* ------------------------------------------------------------------------
\* The error of the earliest violated admission check of a spin, in the
\* order exact payment, solvency, cooldown and, for commitSpin only, no
\* overlapping commit; "ok" when none is violated.
EarliestViolated(call) ==
    IF call.arg # SPIN_COST THEN "IncorrectBetAmount"
    ELSE IF houseBalance < MAX_PRIZE THEN "InsufficientHouseBalance"
    ELSE IF timestamp < s_lastSpinTime[call.sender] + COOLDOWN_PERIOD THEN "CooldownNotExpired"
    ELSE IF call.op = "commitSpin" /\ hasPendingCommit(call.sender)
    THEN "Previous spin not revealed"
    ELSE "ok"

\* C21 as stated: a commitSpin or quickSpin fails with the error of the
\* earliest violated admission check, and is admitted when none is violated.
C21_Original ==
    [][IsSpin(lastCall'.op) => lastCall'.err = EarliestViolated(lastCall')]_vars

\* C21 amended: on a contract that is not paused; on a paused one the pause
\* check comes before all of them and the error is EnforcedPause.
C21_AdmissionCheckOrder ==
    [][IsSpin(lastCall'.op) =>
         lastCall'.err = (IF paused THEN "EnforcedPause"
                          ELSE EarliestViolated(lastCall'))]_vars

\* A commitSpin with exact payment that violated the solvency check, the
\* cooldown and the overlapping-commit check at once.
C21_Witness ==
    /\ lastCall.op = "commitSpin"
    /\ lastCall.arg = SPIN_COST
    /\ lastCall.err = "InsufficientHouseBalance"
    /\ houseBalance < MAX_PRIZE
    /\ timestamp < s_lastSpinTime[lastCall.sender] + COOLDOWN_PERIOD
    /\ hasPendingCommit(lastCall.sender)

\* ------------------------------------------------------------------------
\* C22: the nonce goes up by exactly 1 in every successful commitSpin and
\* every successful quickSpin and is left alone by every other step
\* (revealSpin, deposits, withdrawals, pause, unpause, failed calls), so it
\* never goes down.
C22_NonceAdvancesOncePerSpin ==
    [][/\ nonce' = IF IsSpin(lastCall'.op) /\ lastCall'.err = "ok"
                   THEN nonce + 1
                   ELSE nonce
       /\ nonce' >= nonce]_vars

\* The nonce after one commit and one quick spin, with the commit revealed
\* in between.
C22_Witness ==
    /\ nonce = 2
    /\ lastCall.op = "quickSpin"
    /\ lastCall.err = "ok"
    /\ \E p \in Accounts : commits[p].revealed /\ playerTotalSpins[p] > 0

\* ------------------------------------------------------------------------
\* The timestamp that went into the stored commit hash of player p: the time
\* of the commit.
committedTimestamp(p) == commits[p].commitHash[2][3]

\* C23: the last-spin time of player p is set to the current timestamp by
\* every successful commitSpin or quickSpin of p and changed by no other
\* step, revealSpin included; it never goes down, the timestamp never going
\* down; so after a reveal it is still the time of the commit, and the
\* cooldown runs from there.
C23_LastSpinTime ==
    [][/\ timestamp' >= timestamp
       /\ \A p \in Accounts :
             /\ s_lastSpinTime'[p] =
                   IF IsSpin(lastCall'.op) /\ lastCall'.err = "ok" /\ lastCall'.sender = p
                   THEN timestamp
                   ELSE s_lastSpinTime[p]
             /\ s_lastSpinTime'[p] >= s_lastSpinTime[p]
             /\ s_lastSpinTime'[p] <= timestamp'
       /\ (lastCall'.op = "revealSpin" /\ lastCall'.err = "ok") =>
             /\ s_lastSpinTime'[lastCall'.sender] = committedTimestamp(lastCall'.sender)
             /\ s_lastSpinTime'[lastCall'.sender] < timestamp]_vars

\* A reveal made when the cooldown counted from the commit had just run out.
C23_Witness ==
    /\ lastCall.op = "revealSpin"
    /\ lastCall.err = "ok"
    /\ s_lastSpinTime[lastCall.sender] = committedTimestamp(lastCall.sender)
    /\ timestamp = s_lastSpinTime[lastCall.sender] + COOLDOWN_PERIOD
    /\ commitSpinError(lastCall.sender, SPIN_COST) \in {"ok", "InsufficientHouseBalance"}

\* ------------------------------------------------------------------------
\* The players that have made a commit, and the nonce that went into the
\* stored commit hash of player p.
HasCommit(p) == commits[p].blockNumber # 0
committedNonce(p) == commits[p].commitHash[2][4]

\* C24: a successful commitSpin stores a hash made with the nonce of the
\* moment, which is above the nonce in every hash stored so far; so the new
\* hash differs from every hash a commit has produced, those made with the
\* same secret hash, player or timestamp included.
C24_CommitHashesAreDistinct ==
    [][(lastCall'.op = "commitSpin" /\ lastCall'.err = "ok") =>
          /\ \E secret \in Secrets :
                commits'[lastCall'.sender].commitHash =
                   keccak256(<<keccak256(secret), lastCall'.sender, timestamp, nonce>>)
          /\ nonce' > nonce
          /\ \A q \in Accounts :
                HasCommit(q) =>
                   /\ committedNonce(q) < nonce
                   /\ commits[q].commitHash # commits'[lastCall'.sender].commitHash]_vars

\* Two players hold commits of the same secret hash made at the same
\* timestamp, the later one made by the call just finished.
C24_Witness ==
    /\ lastCall.op = "commitSpin"
    /\ lastCall.err = "ok"
    /\ \E q \in Accounts \ {lastCall.sender} :
          /\ HasCommit(q)
          /\ committedSecretHash(q) = committedSecretHash(lastCall.sender)
          /\ committedTimestamp(q) = committedTimestamp(lastCall.sender)
          /\ committedNonce(q) + 1 = committedNonce(lastCall.sender)
          /\ commits[q].commitHash # commits[lastCall.sender].commitHash

\* ------------------------------------------------------------------------
\* The commit record of player p as a tagged state: NONE while the record is
\* the default one, REVEALED once its flag is set, COMMITTED in between.
commitState(record) ==
    IF record = NoCommit THEN "NONE"
    ELSE IF record.revealed THEN "REVEALED"
    ELSE "COMMITTED"

\* The changes of a commit record: from, to, and the call that makes them.
CommitTransitions ==
    { <<"NONE", "COMMITTED", "commitSpin">>,
      <<"COMMITTED", "REVEALED", "revealSpin">>,
      <<"REVEALED", "COMMITTED", "commitSpin">> }

\* C25: the commit record of a player changes only from NONE to COMMITTED by a
\* commitSpin of that player, from COMMITTED to REVEALED by a revealSpin, and
\* from REVEALED to COMMITTED by a commitSpin; hasPendingCommit holds exactly
\* in COMMITTED.
C25_CommitRecordTransitions ==
    [][\A p \in Accounts :
          /\ hasPendingCommit(p) <=> (commitState(commits[p]) = "COMMITTED")
          /\ hasPendingCommit(p)' <=> (commitState(commits'[p]) = "COMMITTED")
          /\ commits'[p] # commits[p] =>
                /\ lastCall'.sender = p
                /\ lastCall'.err = "ok"
                /\ <<commitState(commits[p]), commitState(commits'[p]), lastCall'.op>>
                      \in CommitTransitions]_vars

\* A reveal has just taken the record of its sender from COMMITTED to
\* REVEALED while the record of another player stays COMMITTED.
C25_Witness ==
    /\ lastCall.op = "revealSpin"
    /\ lastCall.err = "ok"
    /\ commitState(commits[lastCall.sender]) = "REVEALED"
    /\ ~hasPendingCommit(lastCall.sender)
    /\ \E q \in Accounts :
          /\ commitState(commits[q]) = "COMMITTED"
          /\ hasPendingCommit(q)

\* ------------------------------------------------------------------------
Max(a, b) == IF a >= b THEN a ELSE b

\* C26: canSpinAgainAt of getPlayerStats is the later of the end of the
\* cooldown and the current time and lies after the last spin; a spin that
\* reaches the cooldown check (contract active, exact wager, solvent house)
\* passes it exactly when the current time has reached the end of the
\* cooldown, which is exactly when canSpinAgainAt is the current time.
C26_CanSpinAgainAt ==
    [][/\ \A p \in Accounts :
             /\ getPlayerStats(p).lastSpinTime = s_lastSpinTime[p]
             /\ getPlayerStats(p).canSpinAgainAt =
                   Max(s_lastSpinTime[p] + COOLDOWN_PERIOD, timestamp)
             /\ getPlayerStats(p).canSpinAgainAt > s_lastSpinTime[p]
       /\ \A p \in Accounts :
             (IsSpin(lastCall'.op) /\ lastCall'.sender = p) =>
                LET reached == ~paused /\ lastCall'.arg = SPIN_COST
                               /\ houseBalance >= MAX_PRIZE
                    passed == lastCall'.err # "CooldownNotExpired"
                IN /\ ~passed => reached
                   /\ reached =>
                        /\ passed <=> (timestamp >= s_lastSpinTime[p] + COOLDOWN_PERIOD)
                        /\ passed <=> (getPlayerStats(p).canSpinAgainAt = timestamp)
                   /\ lastCall'.err = "ok" =>
                        getPlayerStats(p).canSpinAgainAt' = timestamp + COOLDOWN_PERIOD]_vars

\* A spin has just been refused for its cooldown, after an earlier spin of
\* the same player, and getPlayerStats names a later time.
C26_Witness ==
    /\ IsSpin(lastCall.op)
    /\ lastCall.err = "CooldownNotExpired"
    /\ getPlayerStats(lastCall.sender).lastSpinTime >= StartTime
    /\ getPlayerStats(lastCall.sender).canSpinAgainAt > timestamp
    /\ getPlayerStats(lastCall.sender).totalSpins > 0

\* ------------------------------------------------------------------------
\* C27: when value reaches the contract only through its payable entry
\* points (PayableSpec), houseBalance equals the value the contract holds in
\* every state between calls, also after a prize transfer that failed, after
\* emergencyWithdraw, and after a deposit the recipient of a transfer made
\* from inside it.
C27_HouseBalanceIsHeldValue == houseBalance = balance

\* A prize transfer has just failed and been refunded to the pool, which
\* still holds the wager and matches the held value.
C27_Witness ==
    /\ IsSpin(lastCall.op)
    /\ lastCall.err = "ok"
    /\ lastCall.prize > 0
    /\ ~lastCall.sent
    /\ lastCall.cb = "reject"
    /\ houseBalance = balance
    /\ houseBalance >= MAX_PRIZE + SPIN_COST

\* ------------------------------------------------------------------------
\* C28: in every state between calls the winnings credited to a player are at
\* most one maximum prize per counted spin of that player.
C28_WinsBoundedBySpins ==
    \A p \in Accounts : playerTotalWins[p] <= MAX_PRIZE * playerTotalSpins[p]

\* A player has been credited the maximum prize in one counted spin.
C28_Witness ==
    \E p \in Accounts :
       /\ playerTotalSpins[p] = 1
       /\ playerTotalWins[p] = MAX_PRIZE
       /\ lastCall.sender = p
       /\ lastCall.prize = MAX_PRIZE
       /\ lastCall.sent

\* ------------------------------------------------------------------------
\* Player p holds a pending commit that no secret opens: the commitment
\* revealSpin recomputes (lines 217-223) from the current nonce and the
\* player's last-spin time differs from the stored one for every secret, so
\* revealSpin fails and commitSpin is refused (lines 155-159).
LockedOut(p) ==
    /\ hasPendingCommit(p)
    /\ \A secret \in Secrets : expectedCommit(p, secret) # commits[p].commitHash

\* Neither another call nor the passage of blocks opens a locked-out commit
\* again: the nonce only grows, and the record changes only by a reveal.
LockedOutForever ==
    [][\A p \in Accounts : LockedOut(p) => LockedOut(p)']_vars

\* C29: no player is locked out of the commit path: in every reachable state
\* with the contract active and the house solvent, a pending commit of a
\* player can still be revealed with some secret, after which commitSpin by
\* that player is open again.
C29_NoPermanentLockout ==
    \A p \in Accounts :
       (~paused /\ houseBalance >= MAX_PRIZE) => ~LockedOut(p)

\* ------------------------------------------------------------------------
\* The per-player state of player q (lines 59-66).
playerRecord(q) ==
    <<commits[q], s_lastSpinTime[q], playerTotalSpins[q], playerTotalWins[q]>>

\* C30: a commitSpin, revealSpin or quickSpin by one player, whatever its
\* outcome, leaves the commit record, the last-spin time, the spin count and
\* the winnings of every other player unchanged.
C30_PerPlayerIsolation ==
    [][lastCall'.op \in {"commitSpin", "revealSpin", "quickSpin"} =>
          \A q \in Accounts \ {lastCall'.sender} : playerRecord(q)' = playerRecord(q)]_vars

\* A player has just been paid a prize on a reveal while another player has
\* a last-spin time, a counted spin and winnings of its own.
C30_Witness ==
    /\ lastCall.op = "revealSpin"
    /\ lastCall.err = "ok"
    /\ lastCall.prize > 0
    /\ lastCall.sent
    /\ \E q \in Accounts \ {lastCall.sender} :
          /\ s_lastSpinTime[q] > 0
          /\ playerTotalSpins[q] > 0
          /\ playerTotalWins[q] > 0

=============================================================================
